---- MODULE Spec2Model ----
(***************************************************************************)
(* Model of src/network/core/tcp_connect.cpp: TCPConnecter, the registry   *)
(* _tcp_connecters, the worker thread running Connect(), and the           *)
(* main-loop operations CheckCallbacks() and KillAll().                    *)
(*                                                                         *)
(* The fields connected, aborted, killed and sock are plain (non-atomic)   *)
(* members shared between the worker thread and the main loop.  Every      *)
(* read and write of them that races is a step of its own, in program      *)
(* order, so that each interleaving of the worker's writes with the        *)
(* individual reads of CheckCallbacks is a behaviour of the model.         *)
(*                                                                         *)
(* OnConnect and OnFailure are virtual: what a handler does is the         *)
(* caller's code.  It runs on the main-loop thread, so while a handler is  *)
(* running the model lets it construct attempts, call KillAll and call     *)
(* CheckCallbacks again (to a depth of MaxDepth calls).                    *)
(***************************************************************************)
EXTENDS Integers, Sequences, FiniteSets, TLC

\* ------------------------------------------------------------------ bounds
MaxAttempts == 3

MaxDepth == 2

\* ------------------------------------------------------------- constants
INVALID_SOCKET == 0

Att == 1..MaxAttempts

\* The descriptor address.Connect() returns for attempt a when it succeeds:
\* the OS hands out a distinct open descriptor per successful connect.
NewSocket(a) == a

Sockets == {NewSocket(a) : a \in Att}

VARIABLES
    created,     \* number of TCPConnecter objects constructed so far (ids 1..created)
    connected,   \* [Att -> BOOLEAN]  TCPConnecter::connected
    aborted,     \* [Att -> BOOLEAN]  TCPConnecter::aborted
    killed,      \* [Att -> BOOLEAN]  TCPConnecter::killed
    sock,        \* [Att -> socket]   TCPConnecter::sock
    thread,      \* [Att -> "none": not constructed; "failed": ThreadObject::New
                 \*  returned false; else where the worker is in ThreadEntry:
                 \*  "run" before line 39, "sock" after it, "exit" returned]
    reg,         \* _tcp_connecters, a sequence of attempts
    stack,       \* main-loop thread: the active CheckCallbacks calls, innermost last
    nDelete,     \* [Att -> number of times "delete cur" ran on it]
    nOnConnect,  \* [Att -> number of OnConnect invocations]
    nOnFailure,  \* [Att -> number of OnFailure invocations]
    argSock,     \* [Att -> the socket passed to OnConnect]
    nClosed,     \* [socket -> number of closesocket calls on it]
    op           \* "KillAll" when the last step was a KillAll call, else ""

vars == <<created, connected, aborted, killed, sock, thread, reg, stack,
          nDelete, nOnConnect, nOnFailure, argSock, nClosed, op>>

fields == <<connected, aborted, killed, sock>>
ghost  == <<nDelete, nOnConnect, nOnFailure, argSock, nClosed>>

\* ------------------------------------------------------------- helpers
Range(s) == {s[i] : i \in 1..Len(s)}

Terminal(a) == connected[a] \/ aborted[a]

\* SmallVector::Append: the new item goes to the end of the vector.
Append_(s, x) == s \o <<x>>

\* Erase as it would be if the last item were moved into the hole.
Erase_swapLast(s, i) ==
    [j \in 1..(Len(s) - 1) |-> IF j = i THEN s[Len(s)] ELSE s[j]]

\* SmallVector::Erase(iter): the item at position i leaves the collection, the
\* others keep their order.
Erase(s, i) == [j \in 1..(Len(s) - 1) |-> IF j < i THEN s[j] ELSE s[j + 1]]

Top == stack[Len(stack)]

SetTop(f) == [stack EXCEPT ![Len(stack)] = f]

InHandler == stack # <<>> /\ Top.pc \in {"OnConnect", "OnFailure"}

\* The main-loop thread is free to start an operation: it is in no
\* CheckCallbacks call, or inside a handler that CheckCallbacks invoked.
MainFree == stack = <<>> \/ InHandler

\* ---------------------------------------------------------------- Init
Init ==
    /\ created = 0
    /\ connected = [a \in Att |-> FALSE]
    /\ aborted = [a \in Att |-> FALSE]
    /\ killed = [a \in Att |-> FALSE]
    /\ sock = [a \in Att |-> INVALID_SOCKET]
    /\ thread = [a \in Att |-> "none"]
    /\ reg = <<>>
    /\ stack = <<>>
    /\ nDelete = [a \in Att |-> 0]
    /\ nOnConnect = [a \in Att |-> 0]
    /\ nOnFailure = [a \in Att |-> 0]
    /\ argSock = [a \in Att |-> INVALID_SOCKET]
    /\ nClosed = [s \in Sockets |-> 0]
    /\ op = ""

\* ------------------------------------------------------------- Connect()
\* Line 39: this->sock = this->address.Connect();
ConnectSock(a, s) == sock' = [sock EXCEPT ![a] = s]

\* ConnectFlag as it would be if line 40 tested sock != INVALID_SOCKET.
ConnectFlag_swapped(a, s) ==
    IF s # INVALID_SOCKET
    THEN /\ aborted' = [aborted EXCEPT ![a] = TRUE]
         /\ UNCHANGED connected
    ELSE /\ connected' = [connected EXCEPT ![a] = TRUE]
         /\ UNCHANGED aborted

\* Lines 40-44: aborted = true when sock is INVALID_SOCKET, else connected = true.
ConnectFlag(a, s) ==
    IF s = INVALID_SOCKET
    THEN /\ aborted' = [aborted EXCEPT ![a] = TRUE]
         /\ UNCHANGED connected
    ELSE /\ connected' = [connected EXCEPT ![a] = TRUE]
         /\ UNCHANGED aborted

\* The results address.Connect() can have for attempt a.
ConnectResults(a) == {INVALID_SOCKET, NewSocket(a)}

\* ------------------------------------------------ TCPConnecter constructor
\* Register as it would be if the new attempt were put in front.
Register_front(a) == <<a>> \o reg

\* Line 31: *_tcp_connecters.Append() = this;
Register(a) == Append_(reg, a)

\* The constructor, with ThreadObject::New succeeding: the attempt is
\* registered and its worker is started.
CreateThreaded ==
    /\ MainFree
    /\ created < MaxAttempts
    /\ LET a == created + 1 IN
        /\ created' = a
        /\ reg' = Register(a)
        /\ thread' = [thread EXCEPT ![a] = "run"]
    /\ UNCHANGED <<fields, stack, ghost>>
    /\ op' = ""

\* CreateInline as it would be without the call of Connect() in line 33.
CreateInline_noConnect ==
    /\ MainFree
    /\ created < MaxAttempts
    /\ LET a == created + 1 IN
        /\ created' = a
        /\ reg' = Register(a)
        /\ thread' = [thread EXCEPT ![a] = "failed"]
    /\ UNCHANGED <<fields, stack, ghost>>
    /\ op' = ""

\* CreateInline as it would be if the constructor called Connect() although
\* the worker had been started.
CreateInline_alsoThreaded ==
    /\ MainFree
    /\ created < MaxAttempts
    /\ LET a == created + 1 IN
        /\ created' = a
        /\ reg' = Register(a)
        /\ thread' = [thread EXCEPT ![a] = "run"]
        /\ \E s \in ConnectResults(a) :
            /\ ConnectSock(a, s)
            /\ ConnectFlag(a, s)
    /\ UNCHANGED <<killed, stack, ghost>>
    /\ op' = ""

\* The constructor, with ThreadObject::New failing: Connect() runs on the
\* calling thread before the constructor returns.
CreateInline ==
    /\ MainFree
    /\ created < MaxAttempts
    /\ LET a == created + 1 IN
        /\ created' = a
        /\ reg' = Register(a)
        /\ thread' = [thread EXCEPT ![a] = "failed"]
        /\ \E s \in ConnectResults(a) :
            /\ ConnectSock(a, s)
            /\ ConnectFlag(a, s)
    /\ UNCHANGED <<killed, stack, ghost>>
    /\ op' = ""

\* ------------------------------------------------------------ ThreadEntry
\* The worker's Connect(): address.Connect() returns and sock is written.
WorkerSock(a) ==
    /\ thread[a] = "run"
    /\ \E s \in ConnectResults(a) : ConnectSock(a, s)
    /\ thread' = [thread EXCEPT ![a] = "sock"]
    /\ UNCHANGED <<created, connected, aborted, killed, reg, stack, ghost>>
    /\ op' = ""

\* WorkerFlag as it would be if the worker delivered the outcome itself.
WorkerFlag_notifies(a) ==
    /\ thread[a] = "sock"
    /\ ConnectFlag(a, sock[a])
    /\ thread' = [thread EXCEPT ![a] = "exit"]
    /\ IF sock[a] = INVALID_SOCKET
       THEN /\ nOnFailure' = [nOnFailure EXCEPT ![a] = @ + 1]
            /\ UNCHANGED <<nOnConnect, argSock>>
       ELSE /\ nOnConnect' = [nOnConnect EXCEPT ![a] = @ + 1]
            /\ argSock' = [argSock EXCEPT ![a] = sock[a]]
            /\ UNCHANGED nOnFailure
    /\ UNCHANGED <<created, killed, sock, reg, stack, nDelete, nClosed>>
    /\ op' = ""

\* The worker's Connect(): the terminal flag is written and the thread ends.
WorkerFlag(a) ==
    /\ thread[a] = "sock"
    /\ ConnectFlag(a, sock[a])
    /\ thread' = [thread EXCEPT ![a] = "exit"]
    /\ UNCHANGED <<created, killed, sock, reg, stack, ghost>>
    /\ op' = ""

\* KillAll as it would be if killed were one flag shared by all attempts,
\* those not yet constructed included.
KillAll_shared ==
    /\ MainFree
    /\ killed' = [a \in Att |-> TRUE]
    /\ op' = "KillAll"
    /\ UNCHANGED <<created, connected, aborted, sock, thread, reg, stack, ghost>>

\* KillAll as it would be if it also dropped the socket of every registered
\* attempt that has connected.
KillAll_dropSockets ==
    /\ MainFree
    /\ killed' = [a \in Att |-> killed[a] \/ a \in Range(reg)]
    /\ sock' = [a \in Att |-> IF a \in Range(reg) /\ connected[a]
                              THEN INVALID_SOCKET ELSE sock[a]]
    /\ op' = "KillAll"
    /\ UNCHANGED <<created, connected, aborted, thread, reg, stack, ghost>>

\* KillAll as it would be if it skipped the attempts that already finished.
KillAll_pendingOnly ==
    /\ MainFree
    /\ killed' = [a \in Att |-> killed[a] \/ (a \in Range(reg) /\ ~Terminal(a))]
    /\ op' = "KillAll"
    /\ UNCHANGED <<created, connected, aborted, sock, thread, reg, stack, ghost>>

\* ---------------------------------------------------------------- KillAll
\* Line 81: every registered attempt gets killed = true.
KillAll ==
    /\ MainFree
    /\ killed' = [a \in Att |-> killed[a] \/ a \in Range(reg)]
    /\ op' = "KillAll"
    /\ UNCHANGED <<created, connected, aborted, sock, thread, reg, stack, ghost>>

\* --------------------------------------------------------- CheckCallbacks
\* A call of CheckCallbacks is a frame on the main-loop thread's stack:
\*   pc    where the call is: "t1" the loop test and the read of connected in
\*         line 57, "t1a" the read of aborted in line 57, "t2" line 63,
\*         "t3" line 69, "OnConnect"/"OnFailure" inside the handler of line
\*         65/71;
\*   iter  the loop's iterator, as a position in _tcp_connecters;
\*   cur   the attempt under examination (0: none);
\*   last  the attempt this call notified last (0: none yet);
\*   due   the attempts whose outcome was terminal when the call began and
\*         that are still registered.
NewFrame ==
    [pc |-> "t1", iter |-> 1, cur |-> 0, last |-> 0,
     due |-> {a \in Range(reg) : Terminal(a)}]

\* The stack with its top frame replaced by f, and attempt a, which leaves the
\* registry, struck from every frame's due set.
Reaped(f, a) ==
    [i \in 1..Len(stack) |->
        LET g == IF i = Len(stack) THEN f ELSE stack[i]
        IN [g EXCEPT !.due = @ \ {a}]]

\* Line 55, entry: the main loop calls CheckCallbacks (or a handler does).
CCBegin ==
    /\ \/ stack = <<>>
       \/ InHandler /\ Len(stack) < MaxDepth
    /\ stack' = stack \o <<NewFrame>>
    /\ UNCHANGED <<created, fields, thread, reg, ghost>>
    /\ op' = ""

\* ReapKilled as it would be if a killed attempt were passed over and left
\* registered.
ReapKilled_skip(f, a) ==
    /\ stack' = SetTop([f EXCEPT !.pc = "t1", !.cur = 0, !.iter = f.iter + 1])
    /\ UNCHANGED <<reg, ghost>>

\* ReapKilled as it would be without the closesocket of line 59.
ReapKilled_noClose(f, a) ==
    /\ reg' = Erase(reg, f.iter)
    /\ nDelete' = [nDelete EXCEPT ![a] = @ + 1]
    /\ stack' = Reaped([f EXCEPT !.pc = "t1", !.cur = 0], a)
    /\ UNCHANGED <<nOnConnect, nOnFailure, argSock, nClosed>>

\* ReapKilled as it would be without the Erase of line 58.
ReapKilled_noErase(f, a) ==
    /\ reg' = reg
    /\ nClosed' = IF sock[a] # INVALID_SOCKET
                  THEN [nClosed EXCEPT ![sock[a]] = @ + 1]
                  ELSE nClosed
    /\ nDelete' = [nDelete EXCEPT ![a] = @ + 1]
    /\ stack' = Reaped([f EXCEPT !.pc = "t1", !.cur = 0], a)
    /\ UNCHANGED <<nOnConnect, nOnFailure, argSock>>

\* Lines 58-61: erase, close the socket if there is one, delete, continue.
ReapKilled(f, a) ==
    /\ reg' = Erase(reg, f.iter)
    /\ nClosed' = IF sock[a] # INVALID_SOCKET
                  THEN [nClosed EXCEPT ![sock[a]] = @ + 1]
                  ELSE nClosed
    /\ nDelete' = [nDelete EXCEPT ![a] = @ + 1]
    /\ stack' = Reaped([f EXCEPT !.pc = "t1", !.cur = 0], a)
    /\ UNCHANGED <<nOnConnect, nOnFailure, argSock>>

\* ReapConnected as it would be without the Erase of line 64.
ReapConnected_noErase(f, a) ==
    /\ reg' = reg
    /\ nOnConnect' = [nOnConnect EXCEPT ![a] = @ + 1]
    /\ argSock' = [argSock EXCEPT ![a] = sock[a]]
    /\ stack' = Reaped([f EXCEPT !.pc = "OnConnect", !.cur = a, !.last = a], a)
    /\ UNCHANGED <<nOnFailure, nDelete, nClosed>>

\* ReapConnected as it would be if OnConnect were passed no socket.
ReapConnected_noSock(f, a) ==
    /\ reg' = Erase(reg, f.iter)
    /\ nOnConnect' = [nOnConnect EXCEPT ![a] = @ + 1]
    /\ argSock' = [argSock EXCEPT ![a] = INVALID_SOCKET]
    /\ stack' = Reaped([f EXCEPT !.pc = "OnConnect", !.cur = a, !.last = a], a)
    /\ UNCHANGED <<nOnFailure, nDelete, nClosed>>

\* Lines 64-65: erase, then call OnConnect with the socket.
ReapConnected(f, a) ==
    /\ reg' = Erase(reg, f.iter)
    /\ nOnConnect' = [nOnConnect EXCEPT ![a] = @ + 1]
    /\ argSock' = [argSock EXCEPT ![a] = sock[a]]
    /\ stack' = Reaped([f EXCEPT !.pc = "OnConnect", !.cur = a, !.last = a], a)
    /\ UNCHANGED <<nOnFailure, nDelete, nClosed>>

\* ReapAborted as it would be if the delete of line 72 came before the
\* OnFailure call of line 71.
ReapAborted_deleteFirst(f, a) ==
    /\ reg' = Erase(reg, f.iter)
    /\ nOnFailure' = [nOnFailure EXCEPT ![a] = @ + 1]
    /\ nDelete' = [nDelete EXCEPT ![a] = @ + 1]
    /\ stack' = Reaped([f EXCEPT !.pc = "OnFailure", !.cur = a, !.last = a], a)
    /\ UNCHANGED <<nOnConnect, argSock, nClosed>>

\* ReapAborted as it would be without the Erase of line 70.
ReapAborted_noErase(f, a) ==
    /\ reg' = reg
    /\ nOnFailure' = [nOnFailure EXCEPT ![a] = @ + 1]
    /\ stack' = Reaped([f EXCEPT !.pc = "OnFailure", !.cur = a, !.last = a], a)
    /\ UNCHANGED <<nOnConnect, argSock, nDelete, nClosed>>

\* Lines 70-71: erase, then call OnFailure.
ReapAborted(f, a) ==
    /\ reg' = Erase(reg, f.iter)
    /\ nOnFailure' = [nOnFailure EXCEPT ![a] = @ + 1]
    /\ stack' = Reaped([f EXCEPT !.pc = "OnFailure", !.cur = a, !.last = a], a)
    /\ UNCHANGED <<nOnConnect, argSock, nDelete, nClosed>>

\* Control moves on to pc with everything but the frame unchanged.
Goto(f, a, pc) ==
    /\ stack' = SetTop([f EXCEPT !.pc = pc, !.cur = a])
    /\ UNCHANGED <<reg, ghost>>

\* Line 75: iter++.
Advance(f, a) ==
    /\ stack' = SetTop([f EXCEPT !.pc = "t1", !.cur = 0, !.iter = f.iter + 1])
    /\ UNCHANGED <<reg, ghost>>

\* CCTest1Connected as it would be if line 55 tested iter <= End(): the entry
\* one past the end is then read, which holds what some earlier Append left
\* there.
CCTest1Connected_offByOne ==
    /\ stack # <<>> /\ Top.pc = "t1" /\ Top.iter <= Len(reg) + 1
    /\ \E a \in Att :
          /\ IF Top.iter <= Len(reg) THEN a = reg[Top.iter] ELSE a <= created
          /\ IF connected[a]
             THEN IF killed[a] THEN ReapKilled(Top, a) ELSE Goto(Top, a, "t2")
             ELSE Goto(Top, a, "t1a")
    /\ UNCHANGED <<created, fields, thread>>
    /\ op' = ""

\* CCTest1Connected as it would be if line 57 tested cur->killed alone.
CCTest1Connected_killedOnly ==
    /\ stack # <<>> /\ Top.pc = "t1" /\ Top.iter <= Len(reg)
    /\ LET f == Top
           a == reg[Top.iter]
       IN IF killed[a]
          THEN ReapKilled(f, a)
          ELSE IF connected[a] THEN Goto(f, a, "t2") ELSE Goto(f, a, "t1a")
    /\ UNCHANGED <<created, fields, thread>>
    /\ op' = ""

\* CCTest1Connected as it would be if line 57 were missing, so that a
\* connected attempt always went on to line 63.
CCTest1Connected_ignoresKilled ==
    /\ stack # <<>> /\ Top.pc = "t1" /\ Top.iter <= Len(reg)
    /\ LET f == Top
           a == reg[Top.iter]
       IN IF connected[a]
          THEN Goto(f, a, "t2")
          ELSE Goto(f, a, "t1a")
    /\ UNCHANGED <<created, fields, thread>>
    /\ op' = ""

\* Lines 55-57: iter < End(), cur = *iter, and the read of cur->connected;
\* when it is true the || is decided and cur->killed is read.
CCTest1Connected ==
    /\ stack # <<>> /\ Top.pc = "t1" /\ Top.iter <= Len(reg)
    /\ LET f == Top
           a == reg[Top.iter]
       IN IF connected[a]
          THEN IF killed[a] THEN ReapKilled(f, a) ELSE Goto(f, a, "t2")
          ELSE Goto(f, a, "t1a")
    /\ UNCHANGED <<created, fields, thread>>
    /\ op' = ""

\* CCTest1Aborted as it would be if line 57 tested cur->killed alone.
CCTest1Aborted_killedOnly ==
    /\ stack # <<>> /\ Top.pc = "t1a"
    /\ LET f == Top
           a == Top.cur
       IN IF killed[a]
          THEN ReapKilled(f, a)
          ELSE Goto(f, a, "t2")
    /\ UNCHANGED <<created, fields, thread>>
    /\ op' = ""

\* Line 57, after connected was read false: the read of cur->aborted and,
\* when it is true, of cur->killed.
CCTest1Aborted ==
    /\ stack # <<>> /\ Top.pc = "t1a"
    /\ LET f == Top
           a == Top.cur
       IN IF aborted[a] /\ killed[a]
          THEN ReapKilled(f, a)
          ELSE Goto(f, a, "t2")
    /\ UNCHANGED <<created, fields, thread>>
    /\ op' = ""

\* Line 63: the second read of cur->connected.
CCTest2 ==
    /\ stack # <<>> /\ Top.pc = "t2"
    /\ LET f == Top
           a == Top.cur
       IN IF connected[a]
          THEN ReapConnected(f, a)
          ELSE Goto(f, a, "t3")
    /\ UNCHANGED <<created, fields, thread>>
    /\ op' = ""

\* Line 69: the second read of cur->aborted; line 75 when it is false.
CCTest3 ==
    /\ stack # <<>> /\ Top.pc = "t3"
    /\ LET f == Top
           a == Top.cur
       IN IF aborted[a]
          THEN ReapAborted(f, a)
          ELSE Advance(f, a)
    /\ UNCHANGED <<created, fields, thread>>
    /\ op' = ""

\* CCHandlerReturn as it would be if the loop stepped iter after an Erase.
CCHandlerReturn_advance ==
    /\ InHandler
    /\ LET f == Top
           a == Top.cur
       IN /\ nDelete' = [nDelete EXCEPT ![a] = @ + 1]
          /\ stack' = SetTop([f EXCEPT !.pc = "t1", !.cur = 0, !.iter = f.iter + 1])
    /\ UNCHANGED <<created, fields, thread, reg,
                   nOnConnect, nOnFailure, argSock, nClosed>>
    /\ op' = ""

\* Lines 66-67 and 72-73: the handler returns; delete cur; continue.
CCHandlerReturn ==
    /\ InHandler
    /\ LET f == Top
           a == Top.cur
       IN /\ nDelete' = [nDelete EXCEPT ![a] = @ + 1]
          /\ stack' = SetTop([f EXCEPT !.pc = "t1", !.cur = 0])
    /\ UNCHANGED <<created, fields, thread, reg,
                   nOnConnect, nOnFailure, argSock, nClosed>>
    /\ op' = ""

\* Line 55, exit: iter < End() is false and the call returns.
CCReturn ==
    /\ stack # <<>> /\ Top.pc = "t1" /\ Top.iter > Len(reg)
    /\ stack' = SubSeq(stack, 1, Len(stack) - 1)
    /\ UNCHANGED <<created, fields, thread, reg, ghost>>
    /\ op' = ""

CheckCallbacks ==
    \/ CCBegin
    \/ CCTest1Connected
    \/ CCTest1Aborted
    \/ CCTest2
    \/ CCTest3
    \/ CCHandlerReturn
    \/ CCReturn

Worker == \E a \in Att : WorkerSock(a) \/ WorkerFlag(a)

Next ==
    \/ CreateThreaded
    \/ CreateInline
    \/ Worker
    \/ KillAll
    \/ CheckCallbacks

Spec == Init /\ [][Next]_vars

\* The scheduling CheckCallbacks relies on: each worker thread, once started,
\* goes on until Connect() has returned, and the main loop keeps calling
\* CheckCallbacks, whose steps and handlers go on until the call returns.
FairSpec ==
    /\ Spec
    /\ \A a \in Att : WF_vars(WorkerSock(a) \/ WorkerFlag(a))
    /\ WF_vars(CheckCallbacks)

\* ================================================================= claims
\* C1: for every attempt that KillAll marked killed before it was reaped,
\* neither OnConnect nor OnFailure is ever invoked, however the worker's
\* writes interleave with the reads of CheckCallbacks.  (KillAll reaches
\* only registered attempts, so killed[a] says: killed before reaped.)
C1_KilledNeverNotified ==
    \A a \in Att : killed[a] => nOnConnect[a] = 0 /\ nOnFailure[a] = 0

\* A CheckCallbacks call is at its exit: iter < End() is false.
AtExit == stack # <<>> /\ Top.pc = "t1" /\ Top.iter > Len(reg)

Created(a) == a <= created

\* The attempt has left the registry.
Erased(a) == Created(a) /\ a \notin Range(reg)

Notified(a) == nOnConnect[a] + nOnFailure[a]

\* Some CheckCallbacks call is inside the handler it invoked for a: a is
\* erased and not yet deleted.
InHandlerOf(a) ==
    \E i \in 1..Len(stack) :
        stack[i].pc \in {"OnConnect", "OnFailure"} /\ stack[i].cur = a

\* C2: an attempt that left the registry without ever having been marked
\* killed has had exactly one handler invocation (OnConnect plus OnFailure),
\* and a registered one that is not killed has had none.
C2_ExactlyOneHandler ==
    \A a \in Att :
        ~killed[a] => Notified(a) = (IF Erased(a) THEN 1 ELSE 0)

\* Two attempts, never killed, are destroyed; one got OnConnect, the other
\* OnFailure.
C2_Witness ==
    \E a, b \in Att :
        /\ ~killed[a] /\ ~killed[b]
        /\ nDelete[a] = 1 /\ nDelete[b] = 1
        /\ nOnConnect[a] = 1 /\ nOnFailure[a] = 0
        /\ nOnFailure[b] = 1 /\ nOnConnect[b] = 0
        /\ reg = <<>>

\* C3: OnConnect is invoked only for an attempt whose Connect() obtained a
\* valid socket, and is passed that socket; OnFailure only for an attempt
\* whose Connect() returned INVALID_SOCKET; an attempt that left the registry
\* unkilled got the handler of its outcome; and when a CheckCallbacks call
\* reaches its exit, no unkilled attempt whose outcome was terminal when the
\* call began is still registered.
C3_HandlerMatchesResult ==
    /\ \A a \in Att :
        /\ nOnConnect[a] > 0 =>
              /\ connected[a] /\ ~aborted[a]
              /\ sock[a] = NewSocket(a)
              /\ argSock[a] = sock[a]
        /\ nOnFailure[a] > 0 =>
              /\ aborted[a] /\ ~connected[a]
              /\ sock[a] = INVALID_SOCKET
        /\ Erased(a) /\ ~killed[a] =>
              /\ connected[a] => nOnConnect[a] = 1
              /\ aborted[a] => nOnFailure[a] = 1
    /\ AtExit => \A a \in Top.due : killed[a]

\* The only attempt ever created has a worker that finished with a socket;
\* a CheckCallbacks call notified it with that socket and is at its exit with
\* the registry empty.
C3_Witness ==
    /\ AtExit /\ Len(stack) = 1
    /\ created = 1 /\ thread[1] = "exit" /\ ~killed[1]
    /\ Top.last = 1
    /\ nOnConnect[1] = 1 /\ argSock[1] = NewSocket(1)
    /\ reg = <<>>

\* C4: a KillAll call sets killed on every attempt registered at the time,
\* whatever its outcome, and changes nothing else: the registry, sock,
\* connected, aborted, the workers, the closed sockets and the notifications.
C4_KillAllFrame ==
    [][op' = "KillAll" =>
          /\ killed' = [a \in Att |-> killed[a] \/ a \in Range(reg)]
          /\ UNCHANGED <<created, connected, aborted, sock, thread, reg, stack,
                         nDelete, nOnConnect, nOnFailure, argSock, nClosed>>]_vars

\* KillAll has just run on a registry that holds a Pending, a Connected and
\* an Aborted attempt: all three are killed and still registered, with the
\* worker of the Pending one still running.
C4_Witness ==
    /\ op = "KillAll"
    /\ \E a, b, c \in Range(reg) :
        /\ ~Terminal(a) /\ thread[a] \in {"run", "sock"} /\ killed[a]
        /\ connected[b] /\ killed[b]
        /\ aborted[c] /\ killed[c]

\* C5: once KillAll has run, with every worker going on to completion and
\* CheckCallbacks being called again and again, the registry becomes empty;
\* and as long as a killed attempt has not got its terminal outcome it is
\* still registered, so the registry is not empty before.
C5_KillAllDrains ==
    /\ [](\A a \in Att :
            Created(a) /\ killed[a] /\ ~Terminal(a) => a \in Range(reg))
    /\ (op = "KillAll" /\ reg # <<>>) ~> (reg = <<>>)

\* The registry is empty after an attempt was killed while its worker ran,
\* the worker finished, and CheckCallbacks destroyed it without a handler.
C5_Witness ==
    /\ reg = <<>>
    /\ \E a \in Att :
        /\ killed[a] /\ thread[a] = "exit"
        /\ nDelete[a] = 1 /\ Notified(a) = 0

\* C6: when a CheckCallbacks call reaches its exit, every attempt whose
\* outcome was terminal when that call began has left the registry, wherever
\* it stood, whatever Pending attempts precede it and whatever else the pass
\* erased.
C6_TerminalReapedInOnePass == AtExit => Top.due = {}

\* A call is at its exit: it passed over the Pending attempt 1, which is
\* still registered, and attempts 2 and 3, terminal since their construction,
\* are destroyed, 3 notified by this call.
C6_Witness ==
    /\ AtExit /\ Len(stack) = 1
    /\ created = 3 /\ reg = <<1>> /\ thread[1] = "run"
    /\ thread[2] = "failed" /\ thread[3] = "failed"
    /\ nDelete[2] = 1 /\ nDelete[3] = 1
    /\ Top.last = 3

\* A step of CheckCallbacks: not of a constructor, a worker or KillAll.
CCStep == created' = created /\ thread' = thread /\ op' = ""

\* C7: while an attempt's outcome is Pending no step removes it from the
\* registry, destroys it or notifies it, and no CheckCallbacks step changes
\* one of its fields, killed or not; so it stays registered as long as its
\* worker has not returned.
C7_PendingUntouched ==
    [][\A a \in Att :
          Created(a) /\ ~Terminal(a) =>
              /\ a \in Range(reg) /\ a \in Range(reg')
              /\ nDelete'[a] = 0
              /\ nOnConnect'[a] = 0 /\ nOnFailure'[a] = 0
              /\ CCStep =>
                    /\ connected'[a] = connected[a]
                    /\ aborted'[a] = aborted[a]
                    /\ killed'[a] = killed[a]
                    /\ sock'[a] = sock[a]]_vars

\* A call that reaped attempt 2 is at its exit, having passed over attempt
\* 1, which is killed, Pending (its worker has not returned) and registered.
C7_Witness ==
    /\ AtExit /\ Top.iter = 2
    /\ reg = <<1>> /\ killed[1] /\ thread[1] = "run" /\ ~Terminal(1)
    /\ nDelete[1] = 0 /\ nDelete[2] = 1

\* C8: when ThreadObject::New fails, the constructor has run Connect()
\* itself once when it returns: the attempt is registered with exactly one
\* terminal flag set and a socket that matches it; no worker ever runs for
\* it and its outcome never changes again; the constructor invokes no
\* handler; and every CheckCallbacks call that begins while such an attempt
\* is registered has it among the attempts it must reap, none of which is
\* left when the call reaches its exit.
C8_InlineFallback ==
    /\ [](\A a \in Att :
            thread[a] = "failed" =>
                /\ Created(a)
                /\ connected[a] # aborted[a]
                /\ connected[a] <=> sock[a] # INVALID_SOCKET
                /\ a \in Range(reg) \/ nDelete[a] = 1 \/ InHandlerOf(a))
    /\ [](AtExit => \A a \in Top.due : thread[a] # "failed")
    /\ [][/\ \A a \in Att :
                thread[a] = "failed" =>
                    /\ thread'[a] = "failed"
                    /\ connected'[a] = connected[a]
                    /\ aborted'[a] = aborted[a]
                    /\ sock'[a] = sock[a]
          /\ created' # created =>
                /\ UNCHANGED <<nOnConnect, nOnFailure, nDelete, nClosed>>
                /\ reg' = reg \o <<created'>>
          /\ Len(stack') > Len(stack) =>
                \A a \in Range(reg) :
                    thread[a] = "failed" => a \in stack'[Len(stack')].due]_vars

\* The only attempt was constructed with ThreadObject::New failing; the
\* CheckCallbacks call after it notified it once, destroyed it, and is at
\* its exit.
C8_Witness ==
    /\ AtExit /\ Len(stack) = 1
    /\ created = 1 /\ thread[1] = "failed"
    /\ Top.last = 1 /\ Notified(1) = 1 /\ nDelete[1] = 1
    /\ reg = <<>>

\* C9: a handler is invoked only by the step of a CheckCallbacks call on the
\* main-loop thread that passes from line 63 or 69 into the handler; no
\* worker step, constructor or KillAll invokes one.
C9_HandlersOnlyInCheckCallbacks ==
    [][nOnConnect' # nOnConnect \/ nOnFailure' # nOnFailure =>
          /\ CCStep
          /\ stack # <<>> /\ Top.pc \in {"t2", "t3"}
          /\ Len(stack') = Len(stack)
          /\ stack'[Len(stack)].pc \in {"OnConnect", "OnFailure"}
          /\ \A a \in Att :
                nOnConnect'[a] # nOnConnect[a] \/ nOnFailure'[a] # nOnFailure[a]
                    => a = stack'[Len(stack)].cur]_vars

\* CheckCallbacks is inside the handler of an attempt whose worker ran
\* Connect() to its end; the handler has been invoked once.
C9_Witness ==
    /\ InHandler
    /\ thread[Top.cur] = "exit"
    /\ Notified(Top.cur) = 1

\* C10: within one CheckCallbacks call the handlers are invoked in the order
\* in which their attempts were inserted into the registry (attempts are
\* numbered in construction order).
C10_NotifiedInInsertionOrder ==
    [][stack # <<>> /\ Len(stack') = Len(stack) =>
          \/ stack'[Len(stack)].last = Top.last
          \/ stack'[Len(stack)].last > Top.last]_vars

\* Of three attempts the first and the third have been notified, the third
\* by the call that is now in its handler, while the second is Pending and
\* registered.
C10_Witness ==
    /\ InHandler /\ Len(stack) = 1
    /\ created = 3 /\ reg = <<2>> /\ ~Terminal(2)
    /\ Notified(1) = 1 /\ nDelete[1] = 1
    /\ Top.cur = 3 /\ Top.last = 3 /\ Notified(3) = 1

\* The part of registry r the scan of frame f has passed over, and the part
\* it has still to examine.
PassedOf(r, f) ==
    SubSeq(r, 1, IF f.iter - 1 < Len(r) THEN f.iter - 1 ELSE Len(r))

AheadOf(r, f) == SubSeq(r, f.iter, Len(r))

NoDuplicates(s) == \A i, j \in 1..Len(s) : s[i] = s[j] => i = j

Due(a) == \E i \in 1..Len(stack) : a \in stack[i].due

\* C12: an attempt that KillAll marked and whose worker finished before a
\* call of CheckCallbacks began leaves the registry in that call by lines
\* 58-61: no handler has been or is invoked for it, it is destroyed, its
\* socket is closed once if the connect succeeded and no socket is closed
\* otherwise; and the call does not return with it registered.
C12_KilledFinishedReapedSilently ==
    /\ [][\A a \in Att :
            (killed[a] /\ Due(a) /\ a \notin Range(reg')) =>
               /\ nOnConnect'[a] = 0 /\ nOnFailure'[a] = 0
               /\ \A i \in 1..Len(stack') : stack'[i].cur # a
               /\ nDelete[a] = 0 /\ nDelete'[a] = 1
               /\ connected[a] =>
                     /\ sock[a] # INVALID_SOCKET
                     /\ nClosed' = [nClosed EXCEPT ![sock[a]] = 1]
               /\ aborted[a] => nClosed' = nClosed]_vars
    /\ [](AtExit => \A a \in Range(reg) : killed[a] => ~Due(a))

\* Attempt 1 was marked by KillAll, its worker connected and exited, and a
\* call of CheckCallbacks has reached its end having destroyed the attempt
\* and closed its socket without a handler.
C12_Witness ==
    /\ AtExit /\ Len(stack) = 1 /\ reg = <<>> /\ created = 1
    /\ thread[1] = "exit" /\ connected[1] /\ killed[1]
    /\ nDelete[1] = 1 /\ Notified(1) = 0
    /\ nClosed[NewSocket(1)] = 1

\* C13: a call of CheckCallbacks on an empty registry is two steps of the
\* main-loop thread, the entry and the return; neither invokes a handler,
\* closes a socket, destroys an attempt or changes a field or the registry,
\* and with the registry empty the loop test of line 55 ends the call.
C13_EmptyRegistryNoOp ==
    /\ [][(/\ CCStep /\ reg = <<>>
           /\ \/ Len(stack') > Len(stack)
              \/ stack # <<>> /\ Top.pc = "t1") =>
            /\ UNCHANGED <<created, fields, thread, reg, ghost>>
            /\ \/ stack' = Append_(stack, [pc |-> "t1", iter |-> 1, cur |-> 0,
                                          last |-> 0, due |-> {}])
               \/ stack' = SubSeq(stack, 1, Len(stack) - 1)]_vars
    /\ []((stack # <<>> /\ Top.pc = "t1" /\ reg = <<>>) => ENABLED CCReturn)

\* CheckCallbacks was called before any attempt was ever constructed and is
\* at its loop test.
C13_Witness ==
    /\ created = 0 /\ reg = <<>>
    /\ Len(stack) = 1 /\ Top.pc = "t1" /\ Top.iter = 1

\* C14: in every reachable state, the states between the writes of lines 39
\* and 43 included, sock is valid exactly when connected is true.
C14_SockIffConnected ==
    \A a \in Att : (sock[a] # INVALID_SOCKET) <=> connected[a]

\* C14, amended: connected implies a valid sock and aborted an invalid one in
\* every state; a valid sock implies connected except while the attempt's
\* Connect() is between its write of sock and its write of connected.
C14_SockIffConnectedOutsideConnect ==
    \A a \in Att :
        /\ connected[a] => sock[a] # INVALID_SOCKET
        /\ aborted[a] => sock[a] = INVALID_SOCKET
        /\ thread[a] # "sock" => ((sock[a] # INVALID_SOCKET) <=> connected[a])

\* Attempt 1's worker has written a valid sock and not yet connected, while
\* attempt 2's worker has finished a successful Connect().
C14_Witness ==
    /\ thread[1] = "sock" /\ sock[1] # INVALID_SOCKET /\ ~connected[1]
    /\ thread[2] = "exit" /\ connected[2] /\ sock[2] # INVALID_SOCKET

\* The moves of an attempt's Connect(): started on a worker or run by the
\* constructor, then on the worker the write of sock and the write of the flag.
ConnectMoves ==
    {<<"none", "run">>, <<"none", "failed">>, <<"run", "sock">>,
     <<"sock", "exit">>}

\* C15: connected and aborted are never both true; a flag that is true stays
\* true and once one is true neither flag, nor sock, changes again; the
\* flags change only in the last move of the attempt's one Connect(), which
\* runs either on the worker or in the constructor and is never run again.
C15_OutcomeWrittenOnce ==
    /\ [](\A a \in Att :
            /\ ~(connected[a] /\ aborted[a])
            /\ Terminal(a) <=> thread[a] \in {"exit", "failed"})
    /\ [][\A a \in Att :
            /\ Terminal(a) =>
                  /\ connected'[a] = connected[a] /\ aborted'[a] = aborted[a]
                  /\ sock'[a] = sock[a] /\ thread'[a] = thread[a]
            /\ thread'[a] # thread[a] => <<thread[a], thread'[a]>> \in ConnectMoves
            /\ (connected'[a] # connected[a] \/ aborted'[a] # aborted[a]) =>
                  /\ <<thread[a], thread'[a]>> \in
                        {<<"none", "failed">>, <<"sock", "exit">>}
                  /\ connected'[a] # aborted'[a]]_vars

\* Attempt 1 connected on its worker, attempt 2 failed in its constructor,
\* and both kept their outcome until CheckCallbacks destroyed them.
C15_Witness ==
    /\ thread[1] = "exit" /\ connected[1] /\ ~aborted[1] /\ nDelete[1] = 1
    /\ thread[2] = "failed" /\ aborted[2] /\ ~connected[2] /\ nDelete[2] = 1

\* C16: an attempt is destroyed at most once, and the step that destroys it
\* is a step of CheckCallbacks taken when the attempt's outcome is terminal
\* and the attempt has not been destroyed; KillAll destroys nothing, and a
\* Pending attempt is never destroyed.
C16_DestroyedOnceWhenTerminal ==
    /\ [](\A a \in Att :
            /\ nDelete[a] <= 1
            /\ nDelete[a] = 1 => Terminal(a)
            /\ ~Terminal(a) => nDelete[a] = 0)
    /\ [][\A a \in Att :
            nDelete'[a] # nDelete[a] =>
               /\ CCStep
               /\ Terminal(a)
               /\ nDelete[a] = 0 /\ nDelete'[a] = 1
               /\ a \notin Range(reg')]_vars

\* CheckCallbacks has destroyed attempt 1 on the killed path and attempt 2
\* after its handler, while attempt 3, still Pending and killed, is left.
C16_Witness ==
    /\ nDelete[1] = 1 /\ killed[1] /\ Notified(1) = 0
    /\ nDelete[2] = 1 /\ Notified(2) = 1
    /\ thread[3] = "run" /\ killed[3] /\ nDelete[3] = 0 /\ reg = <<3>>

\* Attempt a's worker still has a write of Connect() to make.
WorkerLive(a) == thread[a] \in {"run", "sock"}

\* C17: under every interleaving of the worker's writes with the main-loop
\* thread's steps, a worker takes no step on an attempt that has been erased
\* or destroyed: an attempt whose worker still has a write to make is
\* registered and not destroyed, the write of the terminal flag is the
\* worker's last step, and the step that destroys an attempt finds its
\* terminal flag set and its worker, if it had one, past that write.
C17_NoWorkerAccessAfterDelete ==
    /\ [](\A a \in Att :
            WorkerLive(a) => a \in Range(reg) /\ nDelete[a] = 0 /\ ~Terminal(a))
    /\ [][\A a \in Att :
            /\ (WorkerLive(a) /\ thread'[a] # thread[a]) =>
                  /\ nDelete[a] = 0 /\ nDelete'[a] = 0
                  /\ a \in Range(reg) /\ a \in Range(reg')
            /\ (thread[a] = "sock" /\ thread'[a] # thread[a]) =>
                  /\ thread'[a] = "exit" /\ Terminal(a)' /\ ~WorkerLive(a)'
            /\ nDelete'[a] # nDelete[a] =>
                  /\ Terminal(a) /\ ~WorkerLive(a)
                  /\ thread'[a] = thread[a]]_vars

\* Attempt 1's worker wrote its flag and exited and CheckCallbacks then
\* destroyed the attempt, while attempt 2, killed, stays registered because
\* its worker has written sock but not yet its flag.
C17_Witness ==
    /\ thread[1] = "exit" /\ nDelete[1] = 1
    /\ thread[2] = "sock" /\ killed[2] /\ nDelete[2] = 0 /\ reg = <<2>>
    /\ stack = <<>>

\* C18: the socket of a successful Connect() meets one fate when its attempt
\* is reaped: it is the argument of the attempt's one OnConnect call, or
\* CheckCallbacks closed it once; never both, never closed twice, and never
\* left with neither once the attempt has left the registry.  CheckCallbacks
\* closes no socket of an attempt that has not connected.
C18_SocketOneFate ==
    \A a \in Att :
        /\ nOnConnect[a] + nClosed[NewSocket(a)] <= 1
        /\ nOnConnect[a] = 1 =>
              connected[a] /\ argSock[a] = sock[a] /\ sock[a] = NewSocket(a)
        /\ nClosed[NewSocket(a)] = 1 =>
              connected[a] /\ sock[a] = NewSocket(a) /\ nDelete[a] = 1
        /\ (Erased(a) /\ sock[a] # INVALID_SOCKET) =>
              nOnConnect[a] + nClosed[sock[a]] = 1

\* Both fates: attempt 1, killed, had its socket closed by CheckCallbacks;
\* attempt 2's socket went to OnConnect; both attempts are destroyed.
C18_Witness ==
    /\ sock[1] # INVALID_SOCKET /\ sock[2] # INVALID_SOCKET
    /\ nDelete[1] = 1 /\ nClosed[sock[1]] = 1 /\ nOnConnect[1] = 0
    /\ nDelete[2] = 1 /\ nOnConnect[2] = 1 /\ nClosed[sock[2]] = 0

\* C19: sock, connected and aborted of an attempt change only in a step of
\* that attempt's own Connect() (sock in the write of line 39, the flags in
\* the write of lines 40-44), a step that is not one of CheckCallbacks or
\* KillAll and touches no other attempt; killed changes only in KillAll,
\* only for a registered attempt, only from false to true, and is never
\* reset.
C19_SingleWriter ==
    [][\A a \in Att :
         /\ sock'[a] # sock[a] =>
               <<thread[a], thread'[a]>> \in
                  {<<"run", "sock">>, <<"none", "failed">>}
         /\ (connected'[a] # connected[a] \/ aborted'[a] # aborted[a]) =>
               <<thread[a], thread'[a]>> \in
                  {<<"sock", "exit">>, <<"none", "failed">>}
         /\ (\/ sock'[a] # sock[a]
             \/ connected'[a] # connected[a]
             \/ aborted'[a] # aborted[a]) =>
               /\ op' # "KillAll" /\ stack' = stack /\ killed' = killed
               /\ ghost' = ghost
               /\ \A b \in Att \ {a} :
                     /\ thread'[b] = thread[b] /\ sock'[b] = sock[b]
                     /\ connected'[b] = connected[b]
                     /\ aborted'[b] = aborted[b]
         /\ killed[a] => killed'[a]
         /\ killed'[a] # killed[a] =>
               /\ op' = "KillAll" /\ a \in Range(reg)
               /\ UNCHANGED <<created, connected, aborted, sock, thread, reg,
                              stack, ghost>>]_vars

\* KillAll has just marked attempt 1, whose worker had connected, and left
\* alone attempt 2, which failed and was destroyed unkilled before.
C19_Witness ==
    /\ op = "KillAll"
    /\ killed[1] /\ connected[1] /\ thread[1] = "exit"
    /\ sock[1] # INVALID_SOCKET /\ 1 \in Range(reg)
    /\ ~killed[2] /\ aborted[2] /\ nDelete[2] = 1

\* C20: the registry holds each attempt at most once and holds only
\* constructed attempts that are neither destroyed nor being handled; an
\* attempt whose worker is running is registered.  An attempt enters the
\* registry only in the step of its constructor, in which its worker has not
\* run yet; it leaves only in a step of CheckCallbacks with its outcome
\* terminal, one attempt a step, and never comes back.
C20_RegistryMembership ==
    /\ [](/\ NoDuplicates(reg)
          /\ \A a \in Range(reg) :
                /\ Created(a) /\ thread[a] # "none"
                /\ nDelete[a] = 0 /\ ~InHandlerOf(a) /\ Notified(a) = 0
          /\ \A a \in Att :
                /\ Created(a) <=> thread[a] # "none"
                /\ WorkerLive(a) => a \in Range(reg))
    /\ [][/\ created' # created =>
                /\ created' = created + 1 /\ thread[created'] = "none"
                /\ thread'[created'] \in {"run", "failed"}
                /\ Range(reg') = Range(reg) \cup {created'}
                /\ Len(reg') = Len(reg) + 1
          /\ created' = created => Range(reg') \subseteq Range(reg)
          /\ Range(reg') # Range(reg) /\ created' = created =>
                /\ CCStep /\ Len(reg') = Len(reg) - 1
                /\ \A a \in Range(reg) \ Range(reg') : Terminal(a)
          /\ \A a \in Att : Erased(a) => a \notin Range(reg')]_vars

\* Of three attempts constructed, attempt 1 was reaped and destroyed,
\* attempt 3 has left the registry and is being handled, and attempt 2,
\* whose worker still runs, is the registry's one entry.
C20_Witness ==
    /\ created = 3 /\ reg = <<2>> /\ WorkerLive(2)
    /\ nDelete[1] = 1 /\ InHandlerOf(3) /\ nDelete[3] = 0

\* C21: on the path of lines 63-74 the attempt leaves the registry in the
\* step that invokes its handler and is destroyed in the step in which that
\* handler returns.  While the handler runs the attempt is unregistered, not
\* destroyed and notified once, and no step taken meanwhile (KillAll, the
\* constructor, a whole nested CheckCallbacks, a worker) changes its killed
\* flag, notifies it again, registers it again or destroys it.
C21_HandledAttemptOutOfReach ==
    /\ [](\A a \in Att :
            InHandlerOf(a) =>
               /\ a \notin Range(reg) /\ nDelete[a] = 0
               /\ Notified(a) = 1 /\ Terminal(a)
               /\ \A i, j \in 1..Len(stack) :
                     stack[i].cur = a /\ stack[j].cur = a => i = j)
    /\ [][\A a \in Att :
            /\ (~InHandlerOf(a) /\ InHandlerOf(a)') =>
                  /\ a \in Range(reg) /\ a \notin Range(reg')
                  /\ nDelete[a] = 0 /\ nDelete'[a] = 0
                  /\ Notified(a) = 0
            /\ InHandlerOf(a) =>
                  /\ killed'[a] = killed[a]
                  /\ nOnConnect'[a] = nOnConnect[a]
                  /\ nOnFailure'[a] = nOnFailure[a]
                  /\ a \notin Range(reg')
                  /\ IF InHandlerOf(a)'
                     THEN nDelete'[a] = 0
                     ELSE /\ nDelete'[a] = 1
                          /\ Top.cur = a /\ Len(stack') = Len(stack)
                          /\ CCStep]_vars

\* Inside the OnConnect of attempt 1, not killed, the handler constructed
\* attempt 2, called KillAll, which marked attempt 2, and called
\* CheckCallbacks, which destroyed attempt 2 and is about to return; attempt
\* 1 is still unmarked, notified once and not destroyed.
C21_Witness ==
    /\ created = 2 /\ Len(stack) = 2 /\ AtExit /\ reg = <<>>
    /\ stack[1].pc = "OnConnect" /\ stack[1].cur = 1
    /\ ~killed[1] /\ Notified(1) = 1 /\ nDelete[1] = 0
    /\ thread[2] = "failed" /\ killed[2] /\ nDelete[2] = 1

\* C22: KillAll changes killed for no attempt outside the registry, so an
\* attempt that is not constructed yet is never marked, and the constructor
\* hands over its attempt with killed false, whatever KillAll did before and
\* without touching the marks of others.  As long as no KillAll has marked
\* it since, the attempt has had no handler while registered and exactly one
\* once CheckCallbacks took it from the registry.
C22_KillAllOnlyRegistered ==
    /\ [](\A a \in Att :
            /\ ~Created(a) => ~killed[a]
            /\ ~killed[a] => Notified(a) = (IF Erased(a) THEN 1 ELSE 0))
    /\ [][/\ created' # created =>
                /\ ~killed'[created'] /\ killed' = killed
                /\ op' # "KillAll"
          /\ op' = "KillAll" =>
                \A a \in Att :
                   killed'[a] = (killed[a] \/ a \in Range(reg))]_vars

\* KillAll marked attempt 1, which CheckCallbacks erased without a handler
\* before it came to attempt 2; attempt 2, unmarked and so constructed after
\* that KillAll, connected on its worker and is now in its one OnConnect.
C22_Witness ==
    /\ created = 2 /\ Len(stack) = 1 /\ reg = <<>>
    /\ Top.pc = "OnConnect" /\ Top.cur = 2 /\ Top.iter = 1
    /\ killed[1] /\ nDelete[1] = 1 /\ Notified(1) = 0
    /\ ~killed[2] /\ thread[2] = "exit" /\ Notified(2) = 1

====
